---- MODULE Spec2Model ----
(***************************************************************************)
(* CryptoNoise KSampler (src/cryptonoise_ksampler.py): the identity        *)
(* derivation, the pixel and block shuffle engines, the blend and the      *)
(* sample() entry point, as a state machine.                               *)
(*                                                                         *)
(* Representation                                                          *)
(*  - Python integers that may exceed 31 bits (the 64-bit value read from  *)
(*    the digest, the 32-bit seed, the per-slice seed) are little-endian   *)
(*    sequences of 16-bit limbs without leading zero limbs (<<>> is 0).    *)
(*  - Strings are sequences of Unicode code points; bytes are 0..255.      *)
(*  - Floats are exact decimals in thousandths: the blend ratio 0.25 is    *)
(*    250, a tensor element 2.0 is 2000.                                   *)
(*  - A tensor is [shape |-> <<B,C,H,W>>, data |-> d] with d[b][c][y][x]   *)
(*    indexed from 0 as in the source.                                     *)
(*  - hashlib.sha256 is tabulated on the keys of the model (real digests); *)
(*    numpy's RandomState(seed).permutation and torch.randn are            *)
(*    deterministic library generators, modelled by a small deterministic  *)
(*    generator that depends on the seed and on nothing else.              *)
(***************************************************************************)
EXTENDS Integers, Sequences, FiniteSets, TLC

VARIABLES clock, first, last, digest, derived, sh_arg, blocks_ret, pixels_ret

vars == <<clock, first, last, digest, derived, sh_arg, blocks_ret, pixels_ret>>

\* ---------------------------------------------------------------- bounds
MaxClock == 1
MaxBatch == 2
MaxChannels == 2
MaxDim == 4

\* ------------------------------------------------------ program constants
\* crypto_blend > 0.01 (thousandths)
BlendEpsilon == 10
\* crypto_blend < 1.0 (thousandths); also the scale of tensor elements
BlendOne == 1000
\* artist_key[:20] in the log line
KeyLogPrefix == 20
\* identity['key_hash'][:16]
SignatureHexLen == 16
\* hash_digest[:8]
SeedBytes == 8
\* % (2**32), in 16-bit limbs
SeedLimbs == 2

\* ------------------------------------------------------------- integers
LimbBase == 256 * 256

Min(a, b) == IF a < b THEN a ELSE b

RECURSIVE NatNorm(_)
NatNorm(n) ==
    IF n = <<>> THEN <<>>
    ELSE IF n[Len(n)] = 0 THEN NatNorm(SubSeq(n, 1, Len(n) - 1))
    ELSE n

\* n * m + carry, for a limb sequence n and small m, carry
RECURSIVE NatMulAdd(_, _, _)
NatMulAdd(n, m, carry) ==
    IF n = <<>>
    THEN (IF carry = 0 THEN <<>> ELSE <<carry>>)
    ELSE <<(Head(n) * m + carry) % LimbBase>>
            \o NatMulAdd(Tail(n), m, (Head(n) * m + carry) \div LimbBase)

NatAddSmall(n, a) == NatNorm(NatMulAdd(n, 1, a))

\* int.from_bytes(bytes, 'big')
RECURSIVE IntFromBytesBig(_)
IntFromBytesBig(bytes) ==
    IF bytes = <<>> THEN <<>>
    ELSE NatNorm(NatMulAdd(IntFromBytesBig(SubSeq(bytes, 1, Len(bytes) - 1)),
                           256, bytes[Len(bytes)]))

\* n % (2 ** (16 * limbs))
NatModPow2(n, limbs) == NatNorm(SubSeq(n, 1, Min(Len(n), limbs)))

\* 0 <= n <= 2**32 - 1
IsUint32(n) ==
    /\ Len(n) <= SeedLimbs
    /\ \A i \in 1..Len(n) : n[i] \in 0..(LimbBase - 1)
    /\ (n # <<>> => n[Len(n)] # 0)

\* ---------------------------------------------------------------- text
\* str.encode('utf-8'): surrogates are not encodable
Utf8OfCodePoint(cp) ==
    IF cp < 128 THEN <<cp>>
    ELSE IF cp < 2048 THEN <<192 + (cp \div 64), 128 + (cp % 64)>>
    ELSE IF cp < 65536
         THEN <<224 + (cp \div 4096), 128 + ((cp \div 64) % 64), 128 + (cp % 64)>>
    ELSE <<240 + (cp \div 262144), 128 + ((cp \div 4096) % 64),
           128 + ((cp \div 64) % 64), 128 + (cp % 64)>>

IsSurrogate(cp) == cp >= 55296 /\ cp <= 57343

RECURSIVE Utf8Bytes(_)
Utf8Bytes(s) ==
    IF s = <<>> THEN <<>> ELSE Utf8OfCodePoint(Head(s)) \o Utf8Bytes(Tail(s))

Utf8Encode(s) ==
    IF \E i \in 1..Len(s) : IsSurrogate(s[i])
    THEN [exc |-> "UnicodeEncodeError", value |-> <<>>]
    ELSE [exc |-> "none", value |-> Utf8Bytes(s)]

\* bytes.hex(): two hex digits (0..15) per byte
RECURSIVE BytesHex(_)
BytesHex(bytes) ==
    IF bytes = <<>> THEN <<>>
    ELSE <<Head(bytes) \div 16, Head(bytes) % 16>> \o BytesHex(Tail(bytes))

\* ------------------------------------------------------------ the keys
\* 'alice'; the default 'your_artist_name_here' (21 characters);
\* 'artist_110111047', whose digest bytes 4..7 are ff ff ff ff (seed 2**32 - 1);
\* '\ud800', a lone surrogate
KeyAlice == <<97, 108, 105, 99, 101>>
KeyPlaceholder ==
    <<121, 111, 117, 114, 95, 97, 114, 116, 105, 115, 116, 95, 110, 97, 109,
      101, 95, 104, 101, 114, 101>>
KeyHighSeed ==
    <<97, 114, 116, 105, 115, 116, 95, 49, 49, 48, 49, 49, 49, 48, 52, 55>>
KeySurrogate == <<55296>>

Keys == {KeyAlice, KeyPlaceholder, KeyHighSeed, KeySurrogate}

\* hashlib.sha256(data).digest(), on the UTF-8 bytes of the keys above
Sha256(data) ==
    CASE data = KeyAlice ->
           <<43, 216, 6, 201, 127, 14, 0, 175, 26, 31, 195, 50, 143, 167, 99,
             169, 38, 151, 35, 200, 219, 143, 172, 79, 147, 175, 113, 219, 24,
             109, 110, 144>>
      [] data = KeyPlaceholder ->
           <<120, 104, 106, 68, 248, 190, 59, 102, 28, 192, 227, 165, 114, 14,
             235, 140, 215, 215, 11, 248, 133, 231, 21, 46, 245, 109, 91, 232,
             123, 28, 81, 102>>
      [] data = KeyHighSeed ->
           <<230, 143, 1, 196, 255, 255, 255, 255, 116, 197, 76, 227, 127, 83,
             87, 89, 28, 57, 30, 35, 164, 103, 248, 115, 34, 251, 133, 109,
             178, 221, 44, 137>>
      [] data = <<>> ->
           <<227, 176, 196, 66, 152, 252, 28, 20, 154, 251, 244, 200, 153, 111,
             185, 36, 39, 174, 65, 228, 100, 155, 147, 76, 164, 149, 153, 27,
             120, 82, 184, 85>>

\* --------------------------------------------------- identity derivation
\* seed = int.from_bytes(hash_digest[:4], 'big'): only the first word read
DeriveSeedFirstWord(hash_digest) ==
    NatModPow2(IntFromBytesBig(SubSeq(hash_digest, 1, 4)), SeedLimbs)

\* seed = int.from_bytes(hash_digest[:8], 'big') % (2**32)
DeriveSeed(hash_digest) ==
    NatModPow2(IntFromBytesBig(SubSeq(hash_digest, 1, SeedBytes)), SeedLimbs)

\* the identity with the derived-at time mixed into the seed
DeriveCryptoIdentityTimed(artist_key, shape, now) ==
    LET enc == Utf8Encode(artist_key) IN
    IF enc.exc # "none"
    THEN [exc |-> enc.exc]
    ELSE [exc |-> "none",
          value |-> [key_hash |-> BytesHex(Sha256(enc.value)),
                     seed |-> NatAddSmall(DeriveSeed(Sha256(enc.value)), now),
                     artist_key_length |-> Len(artist_key),
                     shape |-> shape,
                     timestamp |-> now]]

\* the identity without the time of the call
DeriveCryptoIdentityNoClock(artist_key, shape, now) ==
    LET enc == Utf8Encode(artist_key) IN
    IF enc.exc # "none"
    THEN [exc |-> enc.exc]
    ELSE [exc |-> "none",
          value |-> [key_hash |-> BytesHex(Sha256(enc.value)),
                     seed |-> DeriveSeed(Sha256(enc.value)),
                     artist_key_length |-> Len(artist_key),
                     shape |-> shape,
                     timestamp |-> 0]]

\* _derive_crypto_identity(artist_key, shape), called when time.time() = now.
\* Raises (exc # "none") when the key cannot be encoded.
DeriveCryptoIdentity(artist_key, shape, now) ==
    LET enc == Utf8Encode(artist_key) IN
    IF enc.exc # "none"
    THEN [exc |-> enc.exc]
    ELSE [exc |-> "none",
          value |-> [key_hash |-> BytesHex(Sha256(enc.value)),
                     seed |-> DeriveSeed(Sha256(enc.value)),
                     artist_key_length |-> Len(artist_key),
                     shape |-> shape,
                     timestamp |-> now]]

\* ------------------------------------------------------------- tensors
NoTensor == [shape |-> <<0, 0, 0, 0>>, data |-> <<>>]

DimB(t) == t.shape[1]
DimC(t) == t.shape[2]
DimH(t) == t.shape[3]
DimW(t) == t.shape[4]

\* a tensor of the given shape whose element (b, c, y, x) is f[<<b, c, y, x>>]
MakeTensor(shape, f) ==
    [shape |-> shape,
     data |-> [b \in 0..(shape[1] - 1) |->
                [c \in 0..(shape[2] - 1) |->
                  [y \in 0..(shape[3] - 1) |->
                    [x \in 0..(shape[4] - 1) |-> f[<<b, c, y, x>>]]]]]]

Indices(shape) ==
    (0..(shape[1] - 1)) \X (0..(shape[2] - 1)) \X (0..(shape[3] - 1))
        \X (0..(shape[4] - 1))

\* latent[b, c].flatten()[k]
Flat(t, b, c, k) == t.data[b][c][k \div DimW(t)][k % DimW(t)]

\* --------------------------------------------------- library generators
\* n % m for a limb sequence n and 0 < m < 2**15
RECURSIVE NatModSmall(_, _)
NatModSmall(n, m) ==
    IF n = <<>> THEN 0
    ELSE (Head(n) + (LimbBase % m) * NatModSmall(Tail(n), m)) % m

PrngNext(x) == (x * 75 + 74) % 32749

RECURSIVE Gcd(_, _)
Gcd(a, b) == IF b = 0 THEN a ELSE Gcd(b, a % b)

\* the least multiplier >= t that is invertible modulo n
UnitFrom(t, n) ==
    CHOOSE a \in t..(t + n) :
        /\ Gcd(a, n) = 1
        /\ \A a2 \in t..(a - 1) : Gcd(a2, n) # 1

\* exchange p and q
Transpose(p, q, k) == IF k = p THEN q ELSE IF k = q THEN p ELSE k

\* np.random.RandomState(seed): ValueError unless 0 <= seed <= 2**32 - 1
RandomStateOk(seed) == IsUint32(seed)

\* np.random.RandomState(seed).permutation(n): a permutation of 0..n-1 that
\* depends on (seed, n) alone (an invertible affine map followed by a
\* transposition, both drawn from the generator's stream)
RandomStatePermutation(seed, n) ==
    LET x0 == PrngNext(NatModSmall(seed, 32749))
        x1 == PrngNext(x0)
        x2 == PrngNext(x1)
        x3 == PrngNext(x2)
        a == UnitFrom(1 + (x0 % n), n)
    IN  [k \in 0..(n - 1) |-> Transpose(x2 % n, x3 % n, (a * k + x1) % n)]

\* torch.randn(shape, generator=manual_seed(seed)): a tensor that depends on
\* (seed, shape) alone; a stream separate from the permutation's
TorchRandn(seed, shape) ==
    MakeTensor(shape,
        [i \in Indices(shape) |->
            LET k == ((i[1] * shape[2] + i[2]) * shape[3] + i[3]) * shape[4] + i[4]
            IN (((((NatModSmall(seed, 32719) + 1) * (k + 3) * (k + 5)) % 32719) % 7)
                    - 3) * BlendOne])

\* ------------------------------------------------------- shuffle engine
Raised(e) == [exc |-> e, value |-> NoTensor]
Returned(t) == [exc |-> "none", value |-> t]

\* shuffled = torch.zeros_like(latent): the slip of starting from zeros
CloneAsZeros(t) == MakeTensor(t.shape, [i \in Indices(t.shape) |-> 0])

\* latent.clone()
Clone(t) == [shape |-> t.shape, data |-> t.data]

\* channel_seed = identity["seed"] + b * C + c
ChannelSeed(identity, b, c, C) == NatAddSmall(identity.seed, b * C + c)

\* _shuffle_pixels(latent, identity)
ShufflePixels(latent, identity) ==
    LET B == DimB(latent)
        C == DimC(latent)
        H == DimH(latent)
        W == DimW(latent)
    IN  IF \E b \in 0..(B - 1), c \in 0..(C - 1) :
               ~RandomStateOk(ChannelSeed(identity, b, c, C))
        THEN Raised("ValueError")
        ELSE Returned(
               [shape |-> latent.shape,
                data |->
                  [b \in 0..(B - 1) |->
                    [c \in 0..(C - 1) |->
                      LET perm == RandomStatePermutation(
                                      ChannelSeed(identity, b, c, C), H * W)
                      IN [y \in 0..(H - 1) |->
                           [x \in 0..(W - 1) |->
                              Flat(latent, b, c, perm[y * W + x])]]]]])

\* if blocks_h == 0 and blocks_w == 0: the slip of "and" for "or"
TooSmallBoth(blocks_h, blocks_w) == blocks_h = 0 /\ blocks_w = 0

\* if blocks_h == 0 or blocks_w == 0
TooSmall(blocks_h, blocks_w) == blocks_h = 0 \/ blocks_w = 0

\* source block coordinates <<src_y, src_x>>
SrcCoords(idx, blocks_w, block_size) ==
    <<(idx \div blocks_w) * block_size, (idx % blocks_w) * block_size>>

\* destination coordinates with the column taken by division too
DstCoordsBothDiv(dst_idx, blocks_w, block_size) ==
    <<(dst_idx \div blocks_w) * block_size, (dst_idx \div blocks_w) * block_size>>

\* destination block coordinates <<dst_y, dst_x>>
DstCoords(dst_idx, blocks_w, block_size) ==
    <<(dst_idx \div blocks_w) * block_size, (dst_idx % blocks_w) * block_size>>

\* shuffled_channel[dst_y:dst_y+S, dst_x:dst_x+S] = channel[src_y:src_y+S, src_x:src_x+S]
CopyBlock(shuffled_channel, channel, src, dst, block_size) ==
    [y \in DOMAIN shuffled_channel |->
      [x \in DOMAIN shuffled_channel[y] |->
         IF /\ y >= dst[1] /\ y < dst[1] + block_size
            /\ x >= dst[2] /\ x < dst[2] + block_size
         THEN channel[src[1] + (y - dst[1])][src[2] + (x - dst[2])]
         ELSE shuffled_channel[y][x]]]

\* for idx in range(total_blocks): copy block idx to block block_perm[idx]
RECURSIVE CopyBlocks(_, _, _, _, _, _, _)
CopyBlocks(shuffled_channel, channel, block_perm, idx, total_blocks, blocks_w, block_size) ==
    IF idx >= total_blocks THEN shuffled_channel
    ELSE CopyBlocks(
            CopyBlock(shuffled_channel, channel,
                      SrcCoords(idx, blocks_w, block_size),
                      DstCoords(block_perm[idx], blocks_w, block_size),
                      block_size),
            channel, block_perm, idx + 1, total_blocks, blocks_w, block_size)

\* the body of _shuffle_blocks once the block permutation is drawn
ApplyBlockPerm(latent, block_perm, block_size) ==
    LET B == DimB(latent)
        C == DimC(latent)
        H == DimH(latent)
        W == DimW(latent)
        blocks_h == H \div block_size
        blocks_w == W \div block_size
        actual_h == blocks_h * block_size
        actual_w == blocks_w * block_size
        total_blocks == blocks_h * blocks_w
        shuffled == Clone(latent)
    IN  [shape |-> latent.shape,
         data |->
           [b \in 0..(B - 1) |->
             [c \in 0..(C - 1) |->
               LET channel == [y \in 0..(actual_h - 1) |->
                                [x \in 0..(actual_w - 1) |-> latent.data[b][c][y][x]]]
                   shuffled_channel ==
                       CopyBlocks([y \in 0..(actual_h - 1) |->
                                     [x \in 0..(actual_w - 1) |-> 0]],
                                  channel, block_perm, 0, total_blocks, blocks_w,
                                  block_size)
               IN [y \in 0..(H - 1) |->
                    [x \in 0..(W - 1) |->
                       IF y < actual_h /\ x < actual_w
                       THEN shuffled_channel[y][x]
                       ELSE shuffled.data[b][c][y][x]]]]]]

\* _shuffle_blocks(latent, identity, block_size)
ShuffleBlocks(latent, identity, block_size) ==
    IF block_size = 0 THEN Raised("ZeroDivisionError")
    ELSE LET blocks_h == DimH(latent) \div block_size
             blocks_w == DimW(latent) \div block_size
         IN  IF TooSmall(blocks_h, blocks_w)
             THEN ShufflePixels(latent, identity)
             ELSE Returned(ApplyBlockPerm(latent,
                      RandomStatePermutation(identity.seed, blocks_h * blocks_w),
                      block_size))

\* -------------------------------------------------------- shuffle modes
\* shuffle mode names, as sequences of characters
ModePixel == <<"p", "i", "x", "e", "l">>
ModeBlock8 == <<"b", "l", "o", "c", "k", "_", "8">>
ModeBlock16 == <<"b", "l", "o", "c", "k", "_", "1", "6">>
ModeBlock32 == <<"b", "l", "o", "c", "k", "_", "3", "2">>

\* str.split(sep)
RECURSIVE SplitOn(_, _)
SplitOn(s, sep) ==
    IF s = <<>> THEN << <<>> >>
    ELSE LET rest == SplitOn(Tail(s), sep)
         IN  IF Head(s) = sep
             THEN << <<>> >> \o rest
             ELSE << <<Head(s)>> \o Head(rest) >> \o Tail(rest)

Digits == <<"0", "1", "2", "3", "4", "5", "6", "7", "8", "9">>

DigitValue(ch) == (CHOOSE i \in 1..10 : Digits[i] = ch) - 1

\* int(s) for a string of decimal digits: ValueError otherwise
RECURSIVE DecimalValue(_)
DecimalValue(s) ==
    IF s = <<>> THEN 0
    ELSE DecimalValue(SubSeq(s, 1, Len(s) - 1)) * 10 + DigitValue(s[Len(s)])

ParseInt(s) ==
    IF s = <<>> \/ \E i \in 1..Len(s) : \A d \in 1..10 : Digits[d] # s[i]
    THEN [exc |-> "ValueError", value |-> 0]
    ELSE [exc |-> "none", value |-> DecimalValue(s)]

\* _shuffle_latent(latent, identity, shuffle_mode)
ShuffleLatent(latent, identity, shuffle_mode) ==
    IF shuffle_mode = ModePixel
    THEN ShufflePixels(latent, identity)
    ELSE LET parts == SplitOn(shuffle_mode, "_") IN
         IF Len(parts) < 2 THEN Raised("IndexError")
         ELSE IF ParseInt(parts[2]).exc # "none" THEN Raised("ValueError")
         ELSE ShuffleBlocks(latent, identity, ParseInt(parts[2]).value)

\* ------------------------------------------------- blend and provenance
\* if crypto_blend > 0: a threshold without the epsilon
BlendEnabledAboveZero(crypto_blend) == crypto_blend > 0

\* if crypto_blend > 0.01
BlendEnabled(crypto_blend) == crypto_blend > BlendEpsilon

\* the weights of the blend exchanged
BlendSwapped(samples, crypto_noise, crypto_blend) ==
    IF crypto_blend < BlendOne
    THEN MakeTensor(samples.shape,
            [i \in Indices(samples.shape) |->
                (samples.data[i[1]][i[2]][i[3]][i[4]] * crypto_blend
                 + crypto_noise.data[i[1]][i[2]][i[3]][i[4]] * (BlendOne - crypto_blend))
                    \div BlendOne])
    ELSE crypto_noise

\* samples * (1.0 - crypto_blend) + crypto_noise * crypto_blend, or crypto_noise
Blend(samples, crypto_noise, crypto_blend) ==
    IF crypto_blend < BlendOne
    THEN MakeTensor(samples.shape,
            [i \in Indices(samples.shape) |->
                (samples.data[i[1]][i[2]][i[3]][i[4]] * (BlendOne - crypto_blend)
                 + crypto_noise.data[i[1]][i[2]][i[3]][i[4]] * crypto_blend)
                    \div BlendOne])
    ELSE crypto_noise

\* a signature string: a label and the hex digits that follow it
Label(text) == [label |-> text, hex |-> <<>>]

\* f"CN-{identity['key_hash'][:8]}": the slip of a shorter tag
SignatureOfShort(identity) ==
    [label |-> "CN-", hex |-> SubSeq(identity.key_hash, 1, 8)]

\* f"CN-{identity['key_hash'][:16]}"
SignatureOf(identity) ==
    [label |-> "CN-", hex |-> SubSeq(identity.key_hash, 1, SignatureHexLen)]

NoIdentity ==
    [key_hash |-> <<>>, seed |-> <<>>, artist_key_length |-> 0,
     shape |-> <<0, 0, 0, 0>>, timestamp |-> 0]

\* verification_info = {}
NoVerification ==
    [present |-> FALSE, timestamp |-> 0,
     artist |-> [key_hash |-> <<>>, signature |-> Label("")],
     crypto_parameters |-> [blend_strength |-> 0, shuffle_mode |-> <<>>,
                            latent_shape |-> <<0, 0, 0, 0>>, crypto_seed |-> <<>>]]

\* _build_verification_info: the fields that depend on the signing (the version,
\* the notices and the host's generation parameters are constants or pass through)
BuildVerificationInfo(identity, blend, shuffle_mode, latent_shape) ==
    [present |-> TRUE, timestamp |-> identity.timestamp,
     artist |-> [key_hash |-> identity.key_hash, signature |-> SignatureOf(identity)],
     crypto_parameters |-> [blend_strength |-> blend, shuffle_mode |-> shuffle_mode,
                            latent_shape |-> latent_shape,
                            crypto_seed |-> identity.seed]]

\* json.dumps(verification_info, indent=2) if verification_info else "{}"
VerificationJson(verification_info) ==
    IF verification_info.present
    THEN [text |-> "dumps", doc |-> verification_info]
    ELSE [text |-> "{}", doc |-> NoVerification]

\* ------------------------------------------------------------ log events
\* a log event: the source line, and the string value it interpolates
Event(line) == [line |-> line, shows |-> "none", text |-> <<>>]

\* f"   Artist key: {artist_key[:20]}..." if len(artist_key) > 20
\*     else f"   Artist key: {artist_key}"
ArtistKeyEvent(artist_key) ==
    [line |-> 214, shows |-> "artist_key",
     text |-> IF Len(artist_key) > KeyLogPrefix
              THEN SubSeq(artist_key, 1, KeyLogPrefix) \o <<46, 46, 46>>
              ELSE artist_key]

\* --------------------------------------------------------------- sample
\* what one call of sample did: its arguments, the time of the call, the
\* exception that left it (raised), the latent handed to common_ksampler, the
\* returned signature and verification JSON, the log and the steps performed
Outcome(artist_key, crypto_blend, shuffle_mode, latent_image, now, raised, sampler_latent, signature, verification_info, log, steps, identity) ==
    [called |-> TRUE, artist_key |-> artist_key, crypto_blend |-> crypto_blend,
     shuffle_mode |-> shuffle_mode, latent_image |-> latent_image, at |-> now,
     raised |-> raised, sampler_latent |-> sampler_latent,
     signature |-> signature,
     verification_json |-> VerificationJson(verification_info),
     log |-> log, steps |-> steps, identity |-> identity]

NoCall ==
    [called |-> FALSE, artist_key |-> <<>>, crypto_blend |-> 0,
     shuffle_mode |-> <<>>, latent_image |-> NoTensor, at |-> 0,
     raised |-> "none", sampler_latent |-> NoTensor, signature |-> Label(""),
     verification_json |-> VerificationJson(NoVerification),
     log |-> <<>>, steps |-> {}, identity |-> NoIdentity]

\* sample(...) called when time.time() = now; latent_image is latent_image["samples"]
SampleCall(artist_key, crypto_blend, shuffle_mode, latent_image, now) ==
    LET samples == latent_image
        shape == samples.shape
        warn == IF artist_key = <<>> \/ artist_key = KeyPlaceholder
                THEN <<Event(199)>> ELSE <<>>
        intro == warn \o <<Event(212), Event(213), ArtistKeyEvent(artist_key),
                           Event(215), Event(216)>>
        run == <<Event(289), Event(306)>>
    IN
    IF BlendEnabled(crypto_blend)
    THEN
        LET derived_id == DeriveCryptoIdentity(artist_key, shape, now) IN
        IF derived_id.exc # "none"
        THEN \* line 219 is outside the try block: the exception leaves sample
             Outcome(artist_key, crypto_blend, shuffle_mode, latent_image, now,
                     derived_id.exc, NoTensor, Label(""), NoVerification,
                     intro, {"derive"}, NoIdentity)
        ELSE
            LET identity == derived_id.value
                crypto_base == TorchRandn(identity.seed, shape)
                crypto_noise == ShuffleLatent(crypto_base, identity, shuffle_mode)
            IN
            IF crypto_noise.exc # "none"
            THEN \* except Exception
                 Outcome(artist_key, crypto_blend, shuffle_mode, latent_image, now,
                         "none", latent_image, Label("error"), NoVerification,
                         intro \o <<Event(279), Event(280)>> \o run,
                         {"derive", "randn", "shuffle"}, identity)
            ELSE Outcome(artist_key, crypto_blend, shuffle_mode, latent_image, now,
                         "none",
                         Blend(samples, crypto_noise.value, crypto_blend),
                         SignatureOf(identity),
                         BuildVerificationInfo(identity, crypto_blend,
                                               shuffle_mode, shape),
                         intro \o <<Event(246)>>
                            \o (IF crypto_noise.value = crypto_base
                                THEN <<Event(249)>> ELSE <<>>)
                            \o <<[line |-> 261, shows |-> "signature",
                                  text |-> SignatureOf(identity).hex],
                                 Event(262), Event(263)>>
                            \o run,
                         {"derive", "randn", "shuffle", "blend", "provenance"},
                         identity)
    ELSE Outcome(artist_key, crypto_blend, shuffle_mode, latent_image, now,
                 "none", latent_image, Label("unsigned"), NoVerification,
                 warn \o <<Event(285)>> \o run, {}, NoIdentity)

\* ---------------------------------------------------------------- inputs
Shapes == {<<2, 2, 2, 2>>, <<1, 1, 8, 16>>}

\* an input latent of the given shape
LatentOf(shape) ==
    MakeTensor(shape,
        [i \in Indices(shape) |->
            LET k == ((i[1] * shape[2] + i[2]) * shape[3] + i[3]) * shape[4] + i[4]
            IN (((k * 7 + 3) % 5) - 2) * BlendOne])

Latents == {LatentOf(shape) : shape \in Shapes}

Blends == {0, BlendEpsilon, 250, BlendOne}

Modes == {ModePixel, ModeBlock8}

\* ------------------------------------------------------ the state machine
IdleRet == [done |-> FALSE, exc |-> "none", value |-> NoTensor]
IdleArg == [latent |-> NoTensor, identity |-> NoIdentity, block_size |-> 0]
IdleDerived == [done |-> FALSE, seed |-> <<>>]

Init ==
    /\ clock = 0
    /\ first = NoCall
    /\ last = NoCall
    /\ digest = <<>>
    /\ derived = IdleDerived
    /\ sh_arg = IdleArg
    /\ blocks_ret = IdleRet
    /\ pixels_ret = IdleRet

\* time.time() advances
Tick ==
    /\ clock < MaxClock
    /\ clock' = clock + 1
    /\ UNCHANGED <<first, last, digest, derived, sh_arg, blocks_ret, pixels_ret>>

\* every call of sample the model makes, with its outcome: sample keeps no
\* state, so a call is a function of its arguments and of the time
Calls ==
    {SampleCall(in[1], in[2], in[3], in[4], in[5]) :
        in \in Keys \X Blends \X Modes \X Latents \X (0..MaxClock)}

\* one call of sample, now; first keeps the earliest call, last the latest
Sample ==
    \E call \in Calls :
        /\ call.at = clock
        /\ last' = call
        /\ first' = IF first.called THEN first ELSE last'
        /\ UNCHANGED <<clock, digest, derived, sh_arg, blocks_ret, pixels_ret>>

Next == Tick \/ Sample

Spec == Init /\ [][Next]_vars

\* ------------------------------------------- the seed derivation alone
ByteSamples == {0, 129, 255}

\* a digest whose first eight bytes are drawn from ByteSamples
DeriveInit ==
    /\ clock = 0
    /\ first = NoCall
    /\ last = NoCall
    /\ \E head \in [1..SeedBytes -> ByteSamples] :
          digest = head \o [i \in 1..(32 - SeedBytes) |-> (17 * i) % 256]
    /\ derived = IdleDerived
    /\ sh_arg = IdleArg
    /\ blocks_ret = IdleRet
    /\ pixels_ret = IdleRet

\* line 340 applied to the digest
DeriveStep ==
    /\ ~derived.done
    /\ derived' = [done |-> TRUE, seed |-> DeriveSeed(digest)]
    /\ UNCHANGED <<clock, first, last, digest, sh_arg, blocks_ret, pixels_ret>>

DeriveNext == DeriveStep

DeriveSpec == DeriveInit /\ [][DeriveNext]_vars

\* ------------------------------------------- the shuffle engine alone
BlockSizes == {1, 2, 3}

ShuffleSeeds ==
    {<<s>> : s \in 1..10} \cup {<<>>, <<65534, 65535>>, <<65535, 65535>>}

\* a tensor with pairwise distinct non-zero elements
RampTensor(shape) ==
    MakeTensor(shape,
        [i \in Indices(shape) |->
            ((i[1] * shape[2] + i[2]) * shape[3] + i[3]) * shape[4] + i[4] + 1])

\* a tensor with repeated elements, zero among them
RepeatTensor(shape) ==
    MakeTensor(shape, [i \in Indices(shape) |-> (i[1] + i[2] + i[3] * 2 + i[4]) % 3])

ShuffleInit ==
    /\ clock = 0
    /\ first = NoCall
    /\ last = NoCall
    /\ digest = <<>>
    /\ derived = IdleDerived
    /\ \E B \in 1..MaxBatch, C \in 1..MaxChannels, H \in 1..MaxDim,
          W \in 1..MaxDim, S \in BlockSizes, seed \in ShuffleSeeds :
          \E t \in {RampTensor(<<B, C, H, W>>), RepeatTensor(<<B, C, H, W>>)} :
             sh_arg = [latent |-> t,
                       identity |-> [NoIdentity EXCEPT !.seed = seed,
                                                       !.shape = <<B, C, H, W>>],
                       block_size |-> S]
    /\ blocks_ret = IdleRet
    /\ pixels_ret = IdleRet

Done(r) == [done |-> TRUE, exc |-> r.exc, value |-> r.value]

\* _shuffle_blocks(latent, identity, block_size)
CallShuffleBlocks ==
    /\ ~blocks_ret.done
    /\ blocks_ret' =
          Done(ShuffleBlocks(sh_arg.latent, sh_arg.identity, sh_arg.block_size))
    /\ UNCHANGED <<clock, first, last, digest, derived, sh_arg, pixels_ret>>

\* _shuffle_pixels(latent, identity)
CallShufflePixels ==
    /\ ~pixels_ret.done
    /\ pixels_ret' = Done(ShufflePixels(sh_arg.latent, sh_arg.identity))
    /\ UNCHANGED <<clock, first, last, digest, derived, sh_arg, blocks_ret>>

ShuffleNext == CallShuffleBlocks \/ CallShufflePixels

ShuffleSpec == ShuffleInit /\ [][ShuffleNext]_vars

\* ================================================================ claims

\* C1 (as claimed): every call of sample with a blend ratio above the
\* threshold returns: no exception of a signing step leaves it, and when a
\* signing step failed the sampler received the original latent and the
\* signature is "error".
C1_SigningErrorsNeverPropagate ==
    (last.called /\ last.crypto_blend > BlendEpsilon) =>
        /\ last.raised = "none"
        /\ last.signature.label \in {"CN-", "error"}
        /\ (last.signature.label = "error" =>
               last.sampler_latent = last.latent_image)

SameInputs(a, b) ==
    /\ a.artist_key = b.artist_key
    /\ a.latent_image = b.latent_image
    /\ a.shuffle_mode = b.shuffle_mode
    /\ a.crypto_blend = b.crypto_blend

\* C3: two calls with the same key, input tensor, mode and ratio hand the same
\* latent to the sampler and return the same fingerprint, signature and
\* crypto_seed, whatever the time of each call and whatever ran between them.
C3_Determinism ==
    (first.called /\ last.called /\ SameInputs(first, last)) =>
        /\ last.raised = first.raised
        /\ last.sampler_latent = first.sampler_latent
        /\ last.signature = first.signature
        /\ last.identity.key_hash = first.identity.key_hash
        /\ last.verification_json.doc.artist = first.verification_json.doc.artist
        /\ last.verification_json.doc.crypto_parameters
              = first.verification_json.doc.crypto_parameters

\* C3 witness: the same signing call made at two different times, the sampler
\* latent differing from the input
C3_Witness ==
    /\ first.called /\ last.called /\ SameInputs(first, last)
    /\ first.at # last.at
    /\ last.signature.label = "CN-"
    /\ last.sampler_latent # last.latent_image

BothDerived(a, b) ==
    /\ a.called /\ b.called
    /\ "derive" \in a.steps /\ a.raised = "none"
    /\ "derive" \in b.steps /\ b.raised = "none"
    /\ a.artist_key = b.artist_key
    /\ a.latent_image.shape = b.latent_image.shape

\* C4 (as claimed): two derivations with the same key and shape return records
\* equal in every field, the derived-at timestamp included.
C4_IdentityEqualInEveryField ==
    BothDerived(first, last) => first.identity = last.identity

\* C4 (amended): two derivations with the same key and shape return records
\* equal in fingerprint, seed, key length and shape; the timestamp of each is
\* the time of its own call.
C4_IdentityEqualButTimestamp ==
    BothDerived(first, last) =>
        /\ first.identity.key_hash = last.identity.key_hash
        /\ first.identity.seed = last.identity.seed
        /\ first.identity.artist_key_length = last.identity.artist_key_length
        /\ first.identity.shape = last.identity.shape
        /\ first.identity.timestamp = first.at
        /\ last.identity.timestamp = last.at

\* C4 witness: the same key and shape derived at two different times
C4_Witness ==
    /\ BothDerived(first, last)
    /\ first.at # last.at
    /\ first.identity.timestamp # last.identity.timestamp

\* C5 (as claimed): no log event of a call and no returned value shows the
\* complete secret key.
C5_KeyNeverShownInFull ==
    last.called =>
        /\ \A i \in 1..Len(last.log) :
              ~(last.log[i].shows = "artist_key"
                  /\ last.log[i].text = last.artist_key)
        /\ last.signature.hex # last.artist_key
        /\ last.verification_json.doc.artist.key_hash # last.artist_key

\* C6: the derived seed is a 32-bit unsigned integer, equal to the big-endian
\* value of digest bytes 4..7 (its low limb is bytes 6..7, its high limb bytes
\* 4..5), and no choice of bytes 0..3 changes it.
C6_SeedIsLowWordOfPrefix ==
    derived.done =>
        /\ IsUint32(derived.seed)
        /\ derived.seed = NatNorm(<<digest[7] * 256 + digest[8],
                                    digest[5] * 256 + digest[6]>>)
        /\ derived.seed = IntFromBytesBig(SubSeq(digest, 5, 8))
        /\ \A head \in [1..4 -> ByteSamples] :
              DeriveSeed(head \o SubSeq(digest, 5, 32)) = derived.seed

\* C6 witness: a digest whose bytes 0..3 are not zero and whose bytes 4..7 are
\* all 255 gave the seed 2**32 - 1
C6_Witness ==
    /\ derived.done
    /\ digest[1] = 255 /\ digest[4] = 129
    /\ derived.seed = <<LimbBase - 1, LimbBase - 1>>

Slice(t) == (0..(DimH(t) - 1)) \X (0..(DimW(t) - 1))

Slices(t) == (0..(DimB(t) - 1)) \X (0..(DimC(t) - 1))

\* how many elements of slice (b, c) of t have the value v
Count(t, b, c, v) ==
    Cardinality({p \in Slice(t) : t.data[b][c][p[1]][p[2]] = v})

SameMultiset(t, u, b, c) ==
    \A v \in {t.data[b][c][p[1]][p[2]] : p \in Slice(t)}
             \cup {u.data[b][c][p[1]][p[2]] : p \in Slice(u)} :
        Count(t, b, c, v) = Count(u, b, c, v)

ArgH == DimH(sh_arg.latent)
ArgW == DimW(sh_arg.latent)
ArgS == sh_arg.block_size

\* C8: when the block size divides H and W, _shuffle_blocks returns a tensor
\* of the input's shape whose every (batch, channel) slice holds the same
\* multiset of values as the input slice.
C8_BlockModePreservesValues ==
    (blocks_ret.done /\ ArgH % ArgS = 0 /\ ArgW % ArgS = 0) =>
        /\ blocks_ret.exc = "none"
        /\ blocks_ret.value.shape = sh_arg.latent.shape
        /\ \A q \in Slices(sh_arg.latent) :
              SameMultiset(blocks_ret.value, sh_arg.latent, q[1], q[2])

\* C8 witness: four blocks of a 4 x 4 slice of distinct values were moved
C8_Witness ==
    /\ blocks_ret.done
    /\ ArgS = 2 /\ ArgH = 4 /\ ArgW = 4
    /\ sh_arg.latent = RampTensor(sh_arg.latent.shape)
    /\ blocks_ret.value # sh_arg.latent

\* C9: when H < S or W < S, _shuffle_blocks returns what _shuffle_pixels
\* returns for the same tensor and identity (the same tensor, or the same
\* exception), each slice gathered by the permutation of seed + b*C + c.
C9_FallbackIsPixelMode ==
    (blocks_ret.done /\ pixels_ret.done /\ (ArgH < ArgS \/ ArgW < ArgS)) =>
        /\ blocks_ret = pixels_ret
        /\ blocks_ret.exc = "none" =>
              \A q \in Slices(sh_arg.latent), p \in Slice(sh_arg.latent) :
                 blocks_ret.value.data[q[1]][q[2]][p[1]][p[2]]
                    = Flat(sh_arg.latent, q[1], q[2],
                           RandomStatePermutation(
                               NatAddSmall(sh_arg.identity.seed,
                                           q[1] * DimC(sh_arg.latent) + q[2]),
                               ArgH * ArgW)[p[1] * ArgW + p[2]])

\* C9 witness: a slice lower than the block but at least as wide came back
\* shuffled by the fallback
C9_Witness ==
    /\ blocks_ret.done /\ pixels_ret.done
    /\ ArgH < ArgS /\ ArgW >= ArgS
    /\ blocks_ret.exc = "none"
    /\ blocks_ret.value # sh_arg.latent

\* C10: when H or W is not a multiple of S and each holds a full block, the
\* remainder rows and columns of every slice are unchanged, and in every slice
\* source block idx lands at block position perm[idx] for the one permutation
\* drawn from the seed.
C10_RemainderKeptBlocksShared ==
    (/\ blocks_ret.done
     /\ ArgH >= ArgS /\ ArgW >= ArgS
     /\ (ArgH % ArgS # 0 \/ ArgW % ArgS # 0)) =>
        LET blocks_h == ArgH \div ArgS
            blocks_w == ArgW \div ArgS
            perm == RandomStatePermutation(sh_arg.identity.seed,
                                           blocks_h * blocks_w)
            out == blocks_ret.value
        IN  /\ blocks_ret.exc = "none"
            /\ \A q \in Slices(sh_arg.latent), p \in Slice(sh_arg.latent) :
                  (p[1] >= blocks_h * ArgS \/ p[2] >= blocks_w * ArgS) =>
                      out.data[q[1]][q[2]][p[1]][p[2]]
                         = sh_arg.latent.data[q[1]][q[2]][p[1]][p[2]]
            /\ \A q \in Slices(sh_arg.latent), idx \in 0..(blocks_h * blocks_w - 1),
                  dy \in 0..(ArgS - 1), dx \in 0..(ArgS - 1) :
                  out.data[q[1]][q[2]][(perm[idx] \div blocks_w) * ArgS + dy]
                                      [(perm[idx] % blocks_w) * ArgS + dx]
                     = sh_arg.latent.data[q[1]][q[2]][(idx \div blocks_w) * ArgS + dy]
                                                     [(idx % blocks_w) * ArgS + dx]

\* C10 witness: two batches of 3 x 4 slices with 2 x 2 blocks: a remainder row,
\* two blocks exchanged
C10_Witness ==
    /\ blocks_ret.done
    /\ DimB(sh_arg.latent) = 2
    /\ ArgS = 2 /\ ArgH = 3 /\ ArgW = 4
    /\ sh_arg.latent = RampTensor(sh_arg.latent.shape)
    /\ blocks_ret.value # sh_arg.latent

\* the shuffled noise of a call that signed
ShuffledNoiseOf(call) ==
    ShuffleLatent(TorchRandn(call.identity.seed, call.latent_image.shape),
                  call.identity, call.shuffle_mode).value

\* C7: on the signing path the latent given to the sampler has the input's
\* shape; for 0.01 < r < 1 each element is original*(1-r) + shuffled*r, and
\* for r = 1 it is the shuffled noise itself.
C7_BlendLinearity ==
    (last.called /\ last.raised = "none" /\ last.signature.label = "CN-") =>
        LET r == last.crypto_blend
            orig == last.latent_image
            noise == ShuffledNoiseOf(last)
            out == last.sampler_latent
        IN  /\ out.shape = orig.shape
            /\ r < BlendOne =>
                  \A i \in Indices(orig.shape) :
                     out.data[i[1]][i[2]][i[3]][i[4]] * BlendOne
                        = orig.data[i[1]][i[2]][i[3]][i[4]] * (BlendOne - r)
                            + noise.data[i[1]][i[2]][i[3]][i[4]] * r
            /\ r >= BlendOne => out = noise

\* C7 witness: a call at ratio 0.25 signed and changed the latent
C7_Witness ==
    /\ last.called /\ last.raised = "none" /\ last.signature.label = "CN-"
    /\ last.crypto_blend = 250
    /\ last.sampler_latent # last.latent_image
    /\ last.sampler_latent # ShuffledNoiseOf(last)

\* the calls that reach a pixel shuffle: pixel mode, or a block size larger
\* than H or W
ReachesPixelShuffle(call) ==
    \/ call.shuffle_mode = ModePixel
    \/ /\ call.shuffle_mode # ModePixel
       /\ LET S == ParseInt(SplitOn(call.shuffle_mode, "_")[2]).value
          IN  DimH(call.latent_image) < S \/ DimW(call.latent_image) < S

\* C11 (as claimed): in pixel mode and in the block-size fallback, every
\* per-slice seed seed + b*C + c is at most 2**32 - 1, distinct slices have
\* distinct seeds, and the call signs without entering the error fallback.
C11_SliceSeedsValid ==
    (/\ last.called /\ last.raised = "none"
     /\ last.crypto_blend > BlendEpsilon
     /\ ReachesPixelShuffle(last)) =>
        LET C == DimC(last.latent_image) IN
        /\ IsUint32(last.identity.seed)
        /\ \A q \in Slices(last.latent_image) :
              IsUint32(ChannelSeed(last.identity, q[1], q[2], C))
        /\ \A q1 \in Slices(last.latent_image), q2 \in Slices(last.latent_image) :
              q1 # q2 => ChannelSeed(last.identity, q1[1], q1[2], C)
                            # ChannelSeed(last.identity, q2[1], q2[2], C)
        /\ last.signature.label = "CN-"

\* C12: every return of sample is unsigned ("unsigned", "{}", the original
\* latent), error ("error", "{}", the original latent) or signed ("CN-" and the
\* first 16 hex digits of the fingerprint, a provenance naming that signature
\* and the full fingerprint, the blended latent); the provenance is non-empty
\* exactly when the signature starts with "CN-".
C12_ThreeOutcomes ==
    (last.called /\ last.raised = "none") =>
        LET doc == last.verification_json.doc
            fingerprint == BytesHex(Sha256(Utf8Bytes(last.artist_key)))
            unsigned == /\ last.signature = Label("unsigned")
                        /\ last.verification_json.text = "{}"
                        /\ last.sampler_latent = last.latent_image
            error == /\ last.signature = Label("error")
                     /\ last.verification_json.text = "{}"
                     /\ last.sampler_latent = last.latent_image
            signed == /\ last.signature.label = "CN-"
                      /\ Len(fingerprint) = 64
                      /\ last.signature.hex = SubSeq(fingerprint, 1, 16)
                      /\ last.verification_json.text # "{}"
                      /\ doc.present
                      /\ doc.artist.signature = last.signature
                      /\ doc.artist.key_hash = fingerprint
                      /\ last.sampler_latent
                            = Blend(last.latent_image, ShuffledNoiseOf(last),
                                    last.crypto_blend)
        IN  /\ unsigned \/ error \/ signed
            /\ ~(unsigned /\ error) /\ ~(unsigned /\ signed) /\ ~(error /\ signed)
            /\ (last.verification_json.text # "{}") <=> (last.signature.label = "CN-")

\* C12 witness: an earlier call ended in the error fallback, the latest signed
\* and changed the latent
C12_Witness ==
    /\ first.called /\ first.raised = "none" /\ first.signature = Label("error")
    /\ last.called /\ last.raised = "none" /\ last.signature.label = "CN-"
    /\ last.verification_json.doc.artist.key_hash = last.identity.key_hash
    /\ last.sampler_latent # last.latent_image

====
